---- MODULE Spec2Model ----
\* State-machine model of puma/utils/truth_hadron.py:
\*   MaskTracks, ProcessTruthHadrons, AssociateTracksToHadron,
\*   SelectHadronMostTracks,
\* of puma/hlplots/aux_results.py: AuxResults.add, plot_var_vtx_perf,
\* and of puma/hlplots/results.py: Results.set_signal, add,
\*   load_taggers_from_file, plot_rocs, plot_var_perf.
\* Slot and track positions are numbered from 1 in the arrays of the model;
\* every index VALUE the functions report is the 0-based numpy index.
EXTENDS Integers, Sequences, FiniteSets, TLC

\* ---------------------------------------------------------------- bounds
MaxJets == 2        \* jets per batch handed to ProcessTruthHadrons
MaxHadrons == 3     \* truth-hadron slots per jet (max_n_hadrons)
MaxBarcode == 1     \* barcodes range over -1 .. MaxBarcode
MaskJets == 3       \* jets per batch handed to MaskTracks
MaskWidth == 5      \* largest fixed track-array width handed to MaskTracks
AcctHadrons == 2    \* truth-hadron slots per jet when the pdgId column is read
AssocJets == 2      \* jets per batch handed to AssociateTracksToHadron
AssocHadrons == 2   \* truth-hadron slots per jet in that batch
AssocTracks == 3    \* track slots per jet in that batch
VtxJets == 2        \* jets of the tagger whose vertex indices are cleaned
VtxTracks == 2      \* track slots per jet of that tagger
MaxVertexIndex == 2 \* vertex indices run from -1 (unassigned) to this
MaxCalls == 3       \* calls made on one Results object
MaxFileJets == 3    \* jets in the file load_taggers_from_file reads

\* ------------------------------------------------------- program constants
NaN == -1           \* np.nan, the "missing" marker of the index columns
NoAssociation == -99 \* hadron_index of a jet with no exclusive vertex
Padding == -1       \* the -1 of `hadron["barcode"] == -1`

Barcodes == Padding .. MaxBarcode

VARIABLES
    pc,         \* "call": arguments bound, body not run; "done": returned
    n_jets,     \* the n_jets argument / my_data shape[0]
    n_tracks,   \* the fixed track-array width (my_data["tracks"].shape[1])
    my_data,    \* the structured arrays the called function reads
    args,       \* the other arguments of the call
    loop_i,     \* AssociateTracksToHadron: jets the loop of line 115 has left behind
    jet_row,    \* AssociateTracksToHadron: the rows of my_data the loop body is on
    ret         \* what the call returned (or the exception it raised)

vars == <<pc, n_jets, n_tracks, my_data, args, loop_i, jet_row, ret>>

NoData == [jets |-> <<>>]
NoArgs == [none |-> TRUE]
NoRow == [n_tracks |-> 0]
NoRet == [error |-> "none"]

\* np.sum over a boolean row: the number of True entries
SumRow(row) == Cardinality({k \in DOMAIN row : row[k]})

\* np.sum over a 0/1 integer row
SumBits(row) == Cardinality({k \in DOMAIN row : row[k] = 1})

\* ================================================================ MaskTracks
\* np.where(track_indices < n_real_tracks, 1, 0), one cell; idx is 0-based
TrackMaskCellLe(idx, n_real) == IF idx <= n_real THEN 1 ELSE 0

TrackMaskCellFlip(idx, n_real) == IF idx < n_real THEN 0 ELSE 1

TrackMaskCell(idx, n_real) == IF idx < n_real THEN 1 ELSE 0

\* np.repeat(my_data["jets"]["n_tracks"], n_tracks).reshape(n_jets, n_tracks)
NRealTracks(data, nj, nt) ==
    [i \in 1..nj |-> [k \in 1..nt |-> data.jets.n_tracks[i]]]

\* np.tile(np.arange(0, n_tracks), n_jets).reshape(n_jets, n_tracks)
TrackIndices(nj, nt) == [i \in 1..nj |-> [k \in 1..nt |-> k - 1]]

MaskTracks(data, nj, nt) ==
    LET n_real_tracks == NRealTracks(data, nj, nt)
        track_indices == TrackIndices(nj, nt)
        track_mask == [i \in 1..nj |-> [k \in 1..nt |->
                          TrackMaskCell(track_indices[i][k], n_real_tracks[i][k])]]
    IN  [error |-> "none", track_mask |-> track_mask,
         n_real_tracks |-> n_real_tracks]

InitMask ==
    /\ pc = "call"
    /\ args = NoArgs /\ loop_i = 0 /\ jet_row = NoRow
    /\ n_jets \in 1..MaskJets
    /\ n_tracks \in 1..MaskWidth
    /\ \E decl \in [1..n_jets -> 0..(MaskWidth + 1)] :
           my_data = [jets |-> [n_tracks |-> decl]]
    /\ ret = NoRet

CallMaskTracks ==
    /\ pc = "call"
    /\ ret' = MaskTracks(my_data, n_jets, n_tracks)
    /\ pc' = "done"
    /\ UNCHANGED <<n_jets, n_tracks, my_data, args, loop_i, jet_row>>

NextMask == CallMaskTracks

SpecMask == InitMask /\ [][NextMask]_vars

\* ------------------------------------------------------ claims on MaskTracks
Declared(i) == my_data.jets.n_tracks[i]

C8_MaskIsPrefix ==
    pc = "done" =>
        \A i \in 1..n_jets :
            /\ \A k \in 1..n_tracks :
                  /\ ret.track_mask[i][k] \in {0, 1}
                  /\ ret.track_mask[i][k] = 1 <=> (k - 1) < Declared(i)
            /\ Declared(i) <= n_tracks =>
                  SumBits(ret.track_mask[i]) = Declared(i)

C8_Witness ==
    /\ pc = "done"
    /\ n_tracks = 5
    /\ my_data.jets.n_tracks = <<0, 2, 5>>
    /\ [i \in 1..n_jets |-> SumBits(ret.track_mask[i])] = <<0, 2, 5>>

\* ======================================================= ProcessTruthHadrons
\* np.isin(x, row) for one element x
IsIn(x, row) == \E k \in DOMAIN row : row[k] = x

Slots(hadron, i) == DOMAIN hadron.barcode[i]

\* line 28: child.append(np.isin(parent barcodes of jet i, barcodes of jet i))
ChildAppend(hadron, i) ==
    [j \in Slots(hadron, i) |->
        IsIn(hadron.ftagTruthParentBarcode[i][j], hadron.barcode[i])]

\* line 29: parent.append(np.isin(barcodes of jet i, parent barcodes of jet i))
ParentAppend(hadron, i) ==
    [j \in Slots(hadron, i) |->
        IsIn(hadron.barcode[i][j], hadron.ftagTruthParentBarcode[i])]

\* line 31: np.where(hadron["ftagTruthParentBarcode"] == -1, False, child)
Child(hadron, nj) ==
    [i \in 1..nj |-> [j \in Slots(hadron, i) |->
        IF hadron.ftagTruthParentBarcode[i][j] = Padding THEN FALSE
        ELSE ChildAppend(hadron, i)[j]]]

\* line 32: np.where(hadron["barcode"] == -1, False, parent)
Parent(hadron, nj) ==
    [i \in 1..nj |-> [j \in Slots(hadron, i) |->
        IF hadron.barcode[i][j] = Padding THEN FALSE
        ELSE ParentAppend(hadron, i)[j]]]

\* line 34
RealHadron(hadron, nj) ==
    [i \in 1..nj |-> [j \in Slots(hadron, i) |->
        hadron.barcode[i][j] # Padding]]

\* line 35
OneHadron(real_hadron) ==
    [i \in DOMAIN real_hadron |-> SumRow(real_hadron[i]) = 1]

\* np.sum(matrix) with no axis: the total over every jet of the batch
SumAll(matrix) ==
    Cardinality(UNION {{<<i, j>> : j \in {k \in DOMAIN matrix[i] : matrix[i][k]}} :
                          i \in DOMAIN matrix})

\* np.argmax(row) of a boolean row: the 0-based position of the first True,
\* and 0 when the row holds no True
ArgMaxBool(row) ==
    IF \E j \in DOMAIN row : row[j]
    THEN (CHOOSE j \in DOMAIN row :
             row[j] /\ \A k \in DOMAIN row : row[k] => j <= k) - 1
    ELSE 0

\* line 37: np.where(np.sum(parent) > 0, np.argmax(parent, axis=1), np.nan)
\* (also line 40, with child); the condition is one scalar for the batch
FirstTrueOrNaN(matrix) ==
    LET any == SumAll(matrix) > 0
    IN  [i \in DOMAIN matrix |-> IF any THEN ArgMaxBool(matrix[i]) ELSE NaN]

LabelHadronIndexNoOverride(parent, one_hadron) == FirstTrueOrNaN(parent)

\* lines 37-38
LabelHadronIndex(parent, one_hadron) ==
    LET first == FirstTrueOrNaN(parent)
    IN  [i \in DOMAIN parent |-> IF one_hadron[i] THEN 0 ELSE first[i]]

\* lines 40-41
ChildHadronIndex(child, one_hadron) ==
    LET first == FirstTrueOrNaN(child)
    IN  [i \in DOMAIN child |-> IF one_hadron[i] THEN NaN ELSE first[i]]

RECURSIVE Child2ScanFirst(_, _, _, _)
Child2ScanFirst(row, first, j, acc) ==
    IF j > Len(row) THEN acc
    ELSE IF row[j] /\ (j - 1) # first
         THEN j - 1
         ELSE Child2ScanFirst(row, first, j + 1, acc)

\* lines 47-51: the scan over np.argwhere(child[i] == 1) in ascending order,
\* from slot j on, acc being child2_hadron_index[i] so far
RECURSIVE Child2Scan(_, _, _, _)
Child2Scan(row, first, j, acc) ==
    IF j > Len(row) THEN acc
    ELSE IF row[j] /\ (j - 1) # first
         THEN Child2Scan(row, first, j + 1, j - 1)
         ELSE Child2Scan(row, first, j + 1, acc)

\* lines 43-51
Child2HadronIndex(child, child_hadron_index) ==
    [i \in DOMAIN child |->
        IF SumRow(child[i]) >= 2
        THEN Child2Scan(child[i], child_hadron_index[i], 1, NaN)
        ELSE NaN]

\* line 53: np.stack((label, child, child2), axis=1)
HadronIndices(label_hadron_index, child_hadron_index, child2_hadron_index) ==
    [i \in DOMAIN label_hadron_index |->
        <<label_hadron_index[i], child_hadron_index[i], child2_hadron_index[i]>>]

\* line 58
Family(hadron, child, parent) ==
    [i \in DOMAIN child |-> [j \in Slots(hadron, i) |->
        IF hadron.barcode[i][j] = Padding THEN FALSE
        ELSE child[i][j] \/ parent[i][j]]]

UnrelatedGe(real_hadron, family) ==
    [i \in DOMAIN family |-> /\ SumRow(real_hadron[i]) >= 1
                             /\ SumRow(family[i]) <= 1]

UnrelatedLt(real_hadron, family) ==
    [i \in DOMAIN family |-> /\ SumRow(real_hadron[i]) > 1
                             /\ SumRow(family[i]) < 1]

\* line 59
Unrelated(real_hadron, family) ==
    [i \in DOMAIN family |-> /\ SumRow(real_hadron[i]) > 1
                             /\ SumRow(family[i]) <= 1]

GoodJetsGe(one_hadron, family) ==
    [i \in DOMAIN family |-> one_hadron[i] \/ SumRow(family[i]) >= 1]

\* line 61
GoodJets(one_hadron, family) ==
    [i \in DOMAIN family |-> one_hadron[i] \/ SumRow(family[i]) > 1]

\* lines 16-87; the prints of lines 55-84 change no value that is returned
ProcessTruthHadrons(data, nj) ==
    LET hadron == data.truth_hadrons
        child == Child(hadron, nj)
        parent == Parent(hadron, nj)
        real_hadron == RealHadron(hadron, nj)
        one_hadron == OneHadron(real_hadron)
        label_hadron_index == LabelHadronIndex(parent, one_hadron)
        child_hadron_index == ChildHadronIndex(child, one_hadron)
        child2_hadron_index == Child2HadronIndex(child, child_hadron_index)
        family == Family(hadron, child, parent)
    IN  [error |-> "none",
         good_jets |-> GoodJets(one_hadron, family),
         hadron_indices |-> HadronIndices(label_hadron_index,
                                          child_hadron_index,
                                          child2_hadron_index),
         parent |-> parent,
         child |-> child,
         one_hadron |-> one_hadron,
         unrelated |-> Unrelated(real_hadron, family)]

HadronRows == [1..MaxHadrons -> Barcodes]

InitHadron ==
    /\ pc = "call"
    /\ args = NoArgs /\ loop_i = 0 /\ jet_row = NoRow
    /\ n_jets \in 1..MaxJets
    /\ n_tracks = 0
    /\ \E b \in [1..n_jets -> HadronRows], p \in [1..n_jets -> HadronRows] :
           my_data = [truth_hadrons |->
                         [barcode |-> b, ftagTruthParentBarcode |-> p]]
    /\ ret = NoRet

CallProcessTruthHadrons ==
    /\ pc = "call"
    /\ ret' = ProcessTruthHadrons(my_data, n_jets)
    /\ pc' = "done"
    /\ UNCHANGED <<n_jets, n_tracks, my_data, args, loop_i, jet_row>>

NextHadron == CallProcessTruthHadrons

SpecHadron == InitHadron /\ [][NextHadron]_vars

\* --------------------------------------------- claims on ProcessTruthHadrons
Barcode(i, j) == my_data.truth_hadrons.barcode[i][j]

ParentBarcode(i, j) == my_data.truth_hadrons.ftagTruthParentBarcode[i][j]

HadronSlots == 1..MaxHadrons

\* the 0-based index of the lowest slot of a boolean row that is True
LowestTrue(row) ==
    (CHOOSE j \in DOMAIN row : row[j] /\ \A k \in DOMAIN row : row[k] => j <= k) - 1

\* C1: label_hadron_index[i] is 0 for a one_hadron jet, else the lowest parent
\* slot of jet i itself, else missing - whatever the other jets contain.
C1_LabelHadronIndex ==
    pc = "done" =>
        \A i \in 1..n_jets :
            ret.hadron_indices[i][1] =
                IF ret.one_hadron[i] THEN 0
                ELSE IF \E j \in HadronSlots : ret.parent[i][j]
                     THEN LowestTrue(ret.parent[i])
                     ELSE NaN

\* C2: child_hadron_index[i] is missing for a one_hadron jet, else the lowest
\* child slot of jet i itself, else missing.
C2_ChildHadronIndex ==
    pc = "done" =>
        \A i \in 1..n_jets :
            ret.hadron_indices[i][2] =
                IF ret.one_hadron[i] THEN NaN
                ELSE IF \E j \in HadronSlots : ret.child[i][j]
                     THEN LowestTrue(ret.child[i])
                     ELSE NaN

\* what ProcessTruthHadrons returns for jet i
JetOutputs(r, i) ==
    <<r.good_jets[i], r.hadron_indices[i], r.parent[i], r.child[i],
      r.one_hadron[i], r.unrelated[i]>>

\* every batch of n_jets jets whose jet i has the rows it has in my_data
BatchesSharingJet(i) ==
    LET others == (1..n_jets) \ {i}
    IN  {[truth_hadrons |->
            [barcode |-> [k \in 1..n_jets |->
                 IF k = i THEN my_data.truth_hadrons.barcode[i]
                 ELSE b[k]],
             ftagTruthParentBarcode |-> [k \in 1..n_jets |->
                 IF k = i THEN my_data.truth_hadrons.ftagTruthParentBarcode[i]
                 ELSE p[k]]]] :
         b \in [others -> HadronRows], p \in [others -> HadronRows]}

\* C3: the values produced for jet i depend on the rows of jet i alone: any
\* other batch with the same rows for jet i yields the same values for it.
C3_PerJetIndependence ==
    pc = "done" =>
        \A i \in 1..n_jets : \A other \in BatchesSharingJet(i) :
            JetOutputs(ProcessTruthHadrons(other, n_jets), i) = JetOutputs(ret, i)

\* C9: child[i][j] iff slot j is real, its parent barcode is not -1 and
\* equals the barcode of some OTHER slot of the jet.
C9_ChildOfOtherSlot ==
    pc = "done" =>
        \A i \in 1..n_jets : \A j \in HadronSlots :
            ret.child[i][j] <=>
                /\ Barcode(i, j) # Padding
                /\ ParentBarcode(i, j) # Padding
                /\ \E k \in HadronSlots \ {j} : Barcode(i, k) = ParentBarcode(i, j)

\* C10: parent[i][j] iff slot j is real and its barcode is the parent barcode
\* of some OTHER slot of the jet.
C10_ParentOfOtherSlot ==
    pc = "done" =>
        \A i \in 1..n_jets : \A j \in HadronSlots :
            ret.parent[i][j] <=>
                /\ Barcode(i, j) # Padding
                /\ \E k \in HadronSlots \ {j} : ParentBarcode(i, k) = Barcode(i, j)

\* the slots of jet i that hold a real hadron
RealSlots(i) == {j \in HadronSlots : Barcode(i, j) # Padding}

\* C11: a jet with exactly one real hadron slot is one_hadron, and every
\* one_hadron jet has label_hadron_index 0 and child_hadron_index missing,
\* whatever its parent barcodes and the other jets are.
C11_OneHadronIndices ==
    pc = "done" =>
        \A i \in 1..n_jets :
            /\ ret.one_hadron[i] <=> Cardinality(RealSlots(i)) = 1
            /\ ret.one_hadron[i] =>
                  /\ ret.hadron_indices[i][1] = 0
                  /\ ret.hadron_indices[i][2] = NaN

\* a one_hadron jet whose hadron sits outside slot 0 and names a parent,
\* next to a jet that has a parent slot and a child slot
C11_Witness ==
    /\ pc = "done"
    /\ n_jets = 2
    /\ \E i \in 1..n_jets, k \in 1..n_jets :
          /\ i # k
          /\ ret.one_hadron[i]
          /\ Barcode(i, 1) = Padding
          /\ \E j \in HadronSlots : ParentBarcode(i, j) # Padding
          /\ \E j \in HadronSlots : ret.child[k][j]
          /\ \E j \in HadronSlots : ret.parent[k][j]
          /\ ~ret.one_hadron[k]
          /\ ret.hadron_indices[i][1] = 0
          /\ ret.hadron_indices[i][2] = NaN

\* the slots of jet i that the call marked child
ChildSlots(i) == {j \in HadronSlots : ret.child[i][j]}

\* C12: child2_hadron_index[i] is missing when fewer than 2 slots of jet i
\* are child; otherwise it is the highest-indexed child slot that differs
\* from child_hadron_index[i].
C12_Child2IsLastOtherChild ==
    pc = "done" =>
        \A i \in 1..n_jets :
            IF Cardinality(ChildSlots(i)) < 2
            THEN ret.hadron_indices[i][3] = NaN
            ELSE \E j \in ChildSlots(i) :
                    /\ ret.hadron_indices[i][3] = j - 1
                    /\ j - 1 # ret.hadron_indices[i][2]
                    /\ \A k \in ChildSlots(i) :
                          (k - 1 # ret.hadron_indices[i][2]) => k <= j

\* a jet with three child slots: the scan passes slot 1 and ends on slot 2
C12_Witness ==
    /\ pc = "done"
    /\ \E i \in 1..n_jets :
          /\ Cardinality(ChildSlots(i)) = 3
          /\ ret.hadron_indices[i][2] = 0
          /\ ret.hadron_indices[i][3] = 2

\* family of C13: child or parent, forced false on padding slots
FamilySlots(i) ==
    {j \in HadronSlots :
        Barcode(i, j) # Padding /\ (ret.child[i][j] \/ ret.parent[i][j])}

\* C13: good_jets[i] = one_hadron[i] or more than one family slot;
\* unrelated[i] = more than one real hadron and at most one family slot.
C13_JetClassification ==
    pc = "done" =>
        \A i \in 1..n_jets :
            /\ ret.good_jets[i] <=>
                  (ret.one_hadron[i] \/ Cardinality(FamilySlots(i)) > 1)
            /\ ret.unrelated[i] <=>
                  (Cardinality(RealSlots(i)) > 1 /\ Cardinality(FamilySlots(i)) <= 1)

\* two real hadrons and no parent barcode: unrelated, not a good jet
C13_Witness ==
    /\ pc = "done"
    /\ \E i \in 1..n_jets :
          /\ my_data.truth_hadrons.barcode[i] = <<0, 1, -1>>
          /\ my_data.truth_hadrons.ftagTruthParentBarcode[i] = <<-1, -1, -1>>
          /\ FamilySlots(i) = {}
          /\ ret.unrelated[i]
          /\ ~ret.good_jets[i]

\* jet i is a decay chain: more than one family slot
DecayChain(i) == Cardinality(FamilySlots(i)) > 1

\* the categories of one_hadron, decay chain and unrelated that hold jet i
CategoriesOf(i) ==
    {c \in {"one_hadron", "decay_chain", "unrelated"} :
        \/ c = "one_hadron" /\ ret.one_hadron[i]
        \/ c = "decay_chain" /\ DecayChain(i)
        \/ c = "unrelated" /\ ret.unrelated[i]}

\* C27: every jet is in at most one of one_hadron, decay chain and
\* unrelated, so good_jets and unrelated are never both true and the three
\* counts sum to at most n_jets; a jet is in none of them iff all of its
\* hadron slots are padding.
C27_CategoriesPartition ==
    pc = "done" =>
        /\ \A i \in 1..n_jets :
              /\ Cardinality(CategoriesOf(i)) <= 1
              /\ ~(ret.good_jets[i] /\ ret.unrelated[i])
              /\ CategoriesOf(i) = {} <=> RealSlots(i) = {}
        /\ Cardinality({i \in 1..n_jets : ret.one_hadron[i]})
           + Cardinality({i \in 1..n_jets : DecayChain(i)})
           + Cardinality({i \in 1..n_jets : ret.unrelated[i]}) <= n_jets

\* a batch of a one-hadron jet and an all-padding jet: one category, none
C27_Witness ==
    /\ pc = "done"
    /\ n_jets = 2
    /\ CategoriesOf(1) = {"one_hadron"}
    /\ RealSlots(2) = {}
    /\ CategoriesOf(2) = {}

\* ------------------------------------------- the accounting of lines 56-78
\* np.sum of a boolean vector
CountTrue(vector) == Cardinality({i \in DOMAIN vector : vector[i]})

\* line 63: np.sum(np.where(np.sum(family, axis=1) > 1, True, False))
NDecayChain(family) == Cardinality({i \in DOMAIN family : SumRow(family[i]) > 1})

\* line 71: the rows of hadron[np.invert(good_jets) & np.invert(unrelated)]
MissingJets(good_jets, unrelated) ==
    {i \in DOMAIN good_jets : ~good_jets[i] /\ ~unrelated[i]}

\* lines 73 and 78: np.sum(np.where(missing_jets["pdgId"] != -1, 1, 0))
PdgIdSet(hadron, missing_jets) ==
    Cardinality(UNION {{<<i, j>> : j \in {k \in DOMAIN hadron.pdgId[i] :
                                             hadron.pdgId[i][k] # Padding}} :
                          i \in missing_jets})

\* lines 56-78: what the accounting prints. mismatch: line 72 was printed;
\* not_understood: the count line 78 prints (0 when lines 73-75 ran instead).
\* Whether line 75 is printed also hangs on the flavour column, which
\* changes nothing else and is left out.
AccountingReport(hadron, nj) ==
    LET child == Child(hadron, nj)
        parent == Parent(hadron, nj)
        real_hadron == RealHadron(hadron, nj)
        one_hadron == OneHadron(real_hadron)
        family == Family(hadron, child, parent)
        unrelated == Unrelated(real_hadron, family)
        good_jets == GoodJets(one_hadron, family)
        n_one == CountTrue(one_hadron)
        n_decay_chain == NDecayChain(family)
        n_unrelated == CountTrue(unrelated)
    IN  IF n_one + n_decay_chain + n_unrelated # nj
        THEN [mismatch |-> TRUE,
              n_one |-> n_one, n_decay_chain |-> n_decay_chain,
              n_unrelated |-> n_unrelated,
              not_understood |->
                  PdgIdSet(hadron, MissingJets(good_jets, unrelated))]
        ELSE [mismatch |-> FALSE,
              n_one |-> n_one, n_decay_chain |-> n_decay_chain,
              n_unrelated |-> n_unrelated,
              not_understood |-> 0]

\* a pdgId is -1 or the id of a hadron (511, a B0)
PdgIds == {Padding, 511}

AcctRows == [1..AcctHadrons -> Barcodes]

InitAccount ==
    /\ pc = "call"
    /\ args = NoArgs /\ loop_i = 0 /\ jet_row = NoRow
    /\ n_jets \in 1..MaxJets
    /\ n_tracks = 0
    /\ \E b \in [1..n_jets -> AcctRows], p \in [1..n_jets -> AcctRows],
          g \in [1..n_jets -> [1..AcctHadrons -> PdgIds]] :
           my_data = [truth_hadrons |->
                         [barcode |-> b, ftagTruthParentBarcode |-> p, pdgId |-> g]]
    /\ ret = NoRet

\* lines 16-87, with what lines 56-78 print kept beside the returned values
CallProcessTruthHadronsReport ==
    /\ pc = "call"
    /\ ret' = [returned |-> ProcessTruthHadrons(my_data, n_jets),
               printed |-> AccountingReport(my_data.truth_hadrons, n_jets)]
    /\ pc' = "done"
    /\ UNCHANGED <<n_jets, n_tracks, my_data, args, loop_i, jet_row>>

NextAccount == CallProcessTruthHadronsReport

SpecAccount == InitAccount /\ [][NextAccount]_vars

\* ------------------------------------------------- claims on the accounting
\* the family slots of jet i, from what the call returned
AcctFamilySlots(i) ==
    {j \in 1..AcctHadrons :
        /\ Barcode(i, j) # Padding
        /\ ret.returned.child[i][j] \/ ret.returned.parent[i][j]}

\* jet i is counted in none of one_hadron, decay chain and unrelated
InNoCategory(i) ==
    /\ ~ret.returned.one_hadron[i]
    /\ ~(Cardinality(AcctFamilySlots(i)) > 1)
    /\ ~ret.returned.unrelated[i]

\* count(one_hadron) + count(more than one family slot) + count(unrelated)
CategorySum ==
    Cardinality({i \in 1..n_jets : ret.returned.one_hadron[i]})
    + Cardinality({i \in 1..n_jets : Cardinality(AcctFamilySlots(i)) > 1})
    + Cardinality({i \in 1..n_jets : ret.returned.unrelated[i]})

\* C14 (as stated): either the three counts add up to n_jets, or every jet
\* counted in none of them has pdgId == -1 in all of its hadron slots.
C14_GapHasNoPdgId ==
    pc = "done" =>
        \/ CategorySum = n_jets
        \/ \A i \in 1..n_jets : InNoCategory(i) =>
              \A j \in 1..AcctHadrons : my_data.truth_hadrons.pdgId[i][j] = Padding

\* C14 (amended): either the three counts add up to n_jets, or every jet
\* counted in none of them has barcode == -1 in all of its hadron slots; the
\* pdgId of those slots is whatever the input holds, and the call prints how
\* many of them are not -1.
C14_GapHasNoBarcode ==
    pc = "done" =>
        /\ \/ CategorySum = n_jets
           \/ \A i \in 1..n_jets : InNoCategory(i) =>
                 \A j \in 1..AcctHadrons : Barcode(i, j) = Padding
        /\ ret.printed.mismatch <=> CategorySum # n_jets
        /\ ret.printed.not_understood =
              Cardinality({p \in (1..n_jets) \X (1..AcctHadrons) :
                  /\ InNoCategory(p[1])
                  /\ my_data.truth_hadrons.pdgId[p[1]][p[2]] # Padding})

\* a jet of padding slots only, one of them with a pdgId, next to a jet that
\* is counted: the counts fall short and the slot is reported
C14_Witness ==
    /\ pc = "done"
    /\ n_jets = 2
    /\ CategorySum = 1
    /\ ret.printed.mismatch
    /\ ret.printed.not_understood = 1
    /\ \E i \in 1..n_jets :
          /\ InNoCategory(i)
          /\ \A j \in 1..AcctHadrons : Barcode(i, j) = Padding
          /\ \E j \in 1..AcctHadrons : my_data.truth_hadrons.pdgId[i][j] # Padding

\* =================================================== AssociateTracksToHadron
PositiveTrackBarcodeLe(b) == IF b <= 0 THEN NaN ELSE b

\* line 121: np.where(barcode < 0, np.nan, barcode), one track
PositiveTrackBarcode(b) == IF b < 0 THEN NaN ELSE b

PositiveTrackBarcodes(track_row) ==
    [k \in DOMAIN track_row |-> PositiveTrackBarcode(track_row[k])]

TrackIsInRaw(x, barcodes) == IsIn(x, barcodes)

\* np.isin of a float that may be nan: nan is equal to nothing
TrackIsIn(x, barcodes) == x # NaN /\ IsIn(x, barcodes)

\* line 123: np.where(track_mask[i] == 0, 0, np.isin(positive, barcodes)).astype(int)
InclusiveTracksToHadron(mask_row, positive, barcodes) ==
    [k \in DOMAIN mask_row |->
        IF mask_row[k] = 0 THEN 0
        ELSE IF TrackIsIn(positive[k], barcodes) THEN 1 ELSE 0]

TmpExclusiveUnmasked(mask_row, positive, barcode) ==
    InclusiveTracksToHadron([k \in DOMAIN mask_row |-> 1], positive, <<barcode>>)

\* line 133: the same against the single barcode of hadron slot j
TmpExclusive(mask_row, positive, barcode) ==
    InclusiveTracksToHadron(mask_row, positive, <<barcode>>)

\* line 113: dummy = np.zeros(n_tracks).astype(int)
Dummy(nt) == [k \in 1..nt |-> 0]

DropSingleLt(vertex) ==
    IF SumBits(vertex) < 1 THEN Dummy(Len(vertex)) ELSE vertex

\* lines 125-128 and 134-138: a vertex of at most one track is replaced by dummy
DropSingle(vertex) ==
    IF SumBits(vertex) <= 1 THEN Dummy(Len(vertex)) ELSE vertex

TmpExclusiveListAny(mask_row, positive, barcodes) ==
    [j \in DOMAIN barcodes |->
        DropSingle(InclusiveTracksToHadron(mask_row, positive, barcodes))]

\* lines 132-139: the exclusive vertex of every hadron slot of the jet
TmpExclusiveList(mask_row, positive, barcodes) ==
    [j \in DOMAIN barcodes |->
        DropSingle(TmpExclusive(mask_row, positive, barcodes[j]))]

\* line 139: tmp_n_tracks, counted on what was appended to tmp_exclusive_list
TmpNTracks(tmp_exclusive_list) ==
    [j \in DOMAIN tmp_exclusive_list |-> SumBits(tmp_exclusive_list[j])]

RECURSIVE SumSeq(_)
SumSeq(seq) == IF seq = <<>> THEN 0 ELSE Head(seq) + SumSeq(Tail(seq))

ArgMaxLast(counts) ==
    (CHOOSE j \in DOMAIN counts :
        /\ \A k \in DOMAIN counts : counts[k] <= counts[j]
        /\ \A k \in DOMAIN counts : counts[k] = counts[j] => k <= j) - 1

\* np.argmax of a row of counts: the 0-based position of the first maximum
ArgMax(counts) ==
    (CHOOSE j \in DOMAIN counts :
        /\ \A k \in DOMAIN counts : counts[k] <= counts[j]
        /\ \A k \in DOMAIN counts : counts[k] = counts[j] => j <= k) - 1

\* lines 142-147
BestHadronIndex(counts) ==
    IF SumSeq(counts) > 0 THEN ArgMax(counts) ELSE NoAssociation

SkipJetInverted(drop_bad_jets, good) == drop_bad_jets /\ good

\* lines 116-117: if drop_bad_jets and not good_jets[i]: continue
SkipJet(drop_bad_jets, good) == drop_bad_jets /\ ~good

\* lines 101-103: track_mask & jet_track_mask for one jet
MaskedRow(mask_row, good, drop) ==
    IF drop
    THEN [k \in DOMAIN mask_row |->
             IF mask_row[k] = 1 /\ good THEN 1 ELSE 0]
    ELSE mask_row

\* the row of track_mask the loop uses for the jet whose rows are r
TrackMaskRow(r, nt, good, drop) ==
    MaskedRow(MaskTracks([jets |-> [n_tracks |-> <<r.n_tracks>>]], 1, nt).track_mask[1],
              good, drop)

\* lines 121-150 for one jet: what the loop body appends to each list
AssociateJetBody(r, mask_row) ==
    LET positive_track_barcodes == PositiveTrackBarcodes(r.tracks)
        inclusive_tracks_to_hadron ==
            InclusiveTracksToHadron(mask_row, positive_track_barcodes, r.barcode)
        tmp_exclusive_list ==
            TmpExclusiveList(mask_row, positive_track_barcodes, r.barcode)
        tmp_n_tracks == TmpNTracks(tmp_exclusive_list)
        best == BestHadronIndex(tmp_n_tracks)
    IN  [n_tracks_inclusive_vertex |-> SumBits(inclusive_tracks_to_hadron),
         inclusive_vertex |-> DropSingle(inclusive_tracks_to_hadron),
         exclusive_vertex |-> tmp_exclusive_list,
         n_tracks_exclusive_vertex |-> tmp_n_tracks,
         hadron_index |-> best,
         good_hadron_track_association |-> IF best = NoAssociation THEN 0 ELSE 1]

AssocRows ==
    [n_tracks : 0..(AssocTracks + 1),
     tracks : [1..AssocTracks -> Barcodes],
     barcode : [1..AssocHadrons -> Barcodes]]

\* lines 105-111: the empty result lists
EmptyLists ==
    [error |-> "none",
     inclusive_vertex |-> <<>>, exclusive_vertex |-> <<>>,
     hadron_index |-> <<>>, n_tracks_inclusive_vertex |-> <<>>,
     n_tracks_exclusive_vertex |-> <<>>, track_mask |-> <<>>,
     good_hadron_track_association |-> <<>>]

InitAssoc ==
    /\ pc = "call"
    /\ n_jets \in 1..AssocJets
    /\ n_tracks = AssocTracks
    /\ my_data = NoData
    /\ \E g \in [1..n_jets -> BOOLEAN], drop \in BOOLEAN, dbg \in BOOLEAN :
           args = [good_jets |-> g, drop_bad_jets |-> drop, debug |-> dbg]
    /\ loop_i = 0
    /\ jet_row = NoRow
    /\ ret = NoRet

\* lines 92-113: up to the loop
AssociateEnter ==
    /\ pc = "call"
    /\ pc' = "loop"
    /\ ret' = EmptyLists
    /\ UNCHANGED <<n_jets, n_tracks, my_data, args, loop_i, jet_row>>

\* lines 116-117: a bad jet is skipped; its row of track_mask is all zero
AssociateSkipJet ==
    /\ pc = "loop"
    /\ loop_i < n_jets
    /\ SkipJet(args.drop_bad_jets, args.good_jets[loop_i + 1])
    /\ loop_i' = loop_i + 1
    /\ ret' = [ret EXCEPT !.track_mask = Append(@, Dummy(n_tracks))]
    /\ UNCHANGED <<pc, n_jets, n_tracks, my_data, args, jet_row>>

\* lines 120-155: the loop body on the rows r that my_data holds for jet i
AssociateJet ==
    /\ pc = "loop"
    /\ loop_i < n_jets
    /\ ~SkipJet(args.drop_bad_jets, args.good_jets[loop_i + 1])
    /\ \E r \in AssocRows :
        \E mask_row \in {TrackMaskRow(r, n_tracks, args.good_jets[loop_i + 1],
                                      args.drop_bad_jets)} :
        \E body \in {AssociateJetBody(r, mask_row)} :
            /\ jet_row' = r
            /\ IF args.debug
               THEN \* line 155 reads n_tracks_per_hadron, which nothing defines
                    /\ pc' = "done"
                    /\ ret' = [error |-> "NameError"]
               ELSE /\ pc' = "next"
                    /\ ret' = [ret EXCEPT
                         !.track_mask = Append(@, mask_row),
                         !.n_tracks_inclusive_vertex =
                              Append(@, body.n_tracks_inclusive_vertex),
                         !.inclusive_vertex = Append(@, body.inclusive_vertex),
                         !.exclusive_vertex = Append(@, body.exclusive_vertex),
                         !.n_tracks_exclusive_vertex =
                              Append(@, body.n_tracks_exclusive_vertex),
                         !.hadron_index = Append(@, body.hadron_index),
                         !.good_hadron_track_association =
                              Append(@, body.good_hadron_track_association)]
    /\ UNCHANGED <<n_jets, n_tracks, my_data, args, loop_i>>

\* line 115: the for statement moves on to the next jet; the rows of the jet
\* just done are no longer read
AssociateNext ==
    /\ pc = "next"
    /\ pc' = "loop"
    /\ loop_i' = loop_i + 1
    /\ jet_row' = NoRow
    /\ UNCHANGED <<n_jets, n_tracks, my_data, args, ret>>

\* lines 157-162: the return statement names jet_track_mask, which is bound
\* only inside `if drop_bad_jets:` (lines 100-103)
AssociateReturn ==
    /\ pc = "loop"
    /\ loop_i = n_jets
    /\ pc' = "done"
    /\ ret' = IF args.drop_bad_jets THEN ret
              ELSE [error |-> "UnboundLocalError"]
    /\ UNCHANGED <<n_jets, n_tracks, my_data, args, loop_i, jet_row>>

NextAssoc ==
    \/ AssociateEnter
    \/ AssociateSkipJet
    \/ AssociateJet
    \/ AssociateNext
    \/ AssociateReturn

SpecAssoc == InitAssoc /\ [][NextAssoc]_vars

\* ----------------------------------------- claims on AssociateTracksToHadron
\* the call has built its result lists and has not raised
HasLists == pc \in {"loop", "next", "done"} /\ ret.error = "none"

\* every per-jet output of the call holds one entry per jet of the batch
C5_AllJetsReturned ==
    /\ ret.error = "none"
    /\ Len(ret.track_mask) = n_jets
    /\ Len(ret.inclusive_vertex) = n_jets
    /\ Len(ret.exclusive_vertex) = n_jets
    /\ Len(ret.hadron_index) = n_jets
    /\ Len(ret.n_tracks_inclusive_vertex) = n_jets
    /\ Len(ret.n_tracks_exclusive_vertex) = n_jets
    /\ Len(ret.good_hadron_track_association) = n_jets

\* C5: with drop_bad_jets=False (and the default debug=False) the call
\* returns normally, every jet was processed with the plain track mask and
\* every per-jet output holds n_jets entries.
C5_NoDropReturnsAllJets ==
    (~args.drop_bad_jets /\ ~args.debug) =>
        /\ pc = "next" =>
              ret.track_mask[Len(ret.track_mask)] =
                  [k \in 1..n_tracks |-> IF k - 1 < jet_row.n_tracks THEN 1 ELSE 0]
        /\ pc = "done" =>
              C5_AllJetsReturned

\* C6: every reported inclusive count is the number of set entries of the
\* returned inclusive vertex, every reported exclusive count that of its
\* returned exclusive vertex, and no reported count is 1.
C6_CountsMatchVertices ==
    HasLists =>
        \A n \in DOMAIN ret.inclusive_vertex :
            /\ ret.n_tracks_inclusive_vertex[n] = SumBits(ret.inclusive_vertex[n])
            /\ ret.n_tracks_inclusive_vertex[n] # 1
            /\ \A j \in 1..AssocHadrons :
                  /\ ret.n_tracks_exclusive_vertex[n][j] =
                         SumBits(ret.exclusive_vertex[n][j])
                  /\ ret.n_tracks_exclusive_vertex[n][j] # 1

\* the jet the loop body has just handled (pc = "next") is jet loop_i + 1 of
\* the batch, its input rows are jet_row and its entry is the last of each list
LastEntry == Len(ret.inclusive_vertex)

\* track slot k of that jet is unmasked
Unmasked(k) ==
    /\ k - 1 < jet_row.n_tracks
    /\ args.drop_bad_jets => args.good_jets[loop_i + 1]

\* track slot k carries the barcode of the real hadron in slot j
MatchesSlot(k, j) ==
    /\ jet_row.tracks[k] >= 0
    /\ jet_row.barcode[j] # Padding
    /\ jet_row.tracks[k] = jet_row.barcode[j]

\* the track slots that qualify for the inclusive vertex, for that of slot j
QualifyInclusive ==
    {k \in 1..AssocTracks : Unmasked(k) /\ \E j \in 1..AssocHadrons : MatchesSlot(k, j)}

QualifyExclusive(j) == {k \in 1..AssocTracks : Unmasked(k) /\ MatchesSlot(k, j)}

AllZero(vertex) == \A k \in DOMAIN vertex : vertex[k] = 0

\* C15: for every processed jet the best hadron index is the lowest slot
\* holding the maximum exclusive count when some count is non-zero and -99
\* when all are zero, and the association flag is 1 exactly when the index
\* is not -99.
C15_BestHadronIndex ==
    HasLists =>
        \A n \in DOMAIN ret.hadron_index :
            LET counts == ret.n_tracks_exclusive_vertex[n]
                index == ret.hadron_index[n]
            IN  /\ IF \A j \in 1..AssocHadrons : counts[j] = 0
                   THEN index = NoAssociation
                   ELSE /\ index \in 0..(AssocHadrons - 1)
                        /\ \A j \in 1..AssocHadrons : counts[j] <= counts[index + 1]
                        /\ \A j \in 1..index : counts[j] < counts[index + 1]
                /\ ret.good_hadron_track_association[n] \in {0, 1}
                /\ ret.good_hadron_track_association[n] = 1 <=> index # NoAssociation

\* two slots tie on a non-zero count and the lower one is named; another jet
\* has no exclusive track at all
C15_Witness ==
    /\ pc = "done" /\ ret.error = "none"
    /\ \E n \in DOMAIN ret.hadron_index :
          /\ ret.n_tracks_exclusive_vertex[n] = <<2, 2>>
          /\ ret.hadron_index[n] = 0
          /\ ret.good_hadron_track_association[n] = 1
    /\ \E n \in DOMAIN ret.hadron_index :
          /\ ret.hadron_index[n] = NoAssociation
          /\ ret.good_hadron_track_association[n] = 0

\* C16: every inclusive vertex and every exclusive vertex in the lists holds
\* no set track or at least two, and a vertex for which fewer than two
\* tracks qualify is all zero.
C16_NoSingleTrackVertex ==
    /\ HasLists =>
          \A n \in DOMAIN ret.inclusive_vertex :
              /\ SumBits(ret.inclusive_vertex[n]) # 1
              /\ \A j \in 1..AssocHadrons : SumBits(ret.exclusive_vertex[n][j]) # 1
    /\ pc = "next" =>
          /\ Cardinality(QualifyInclusive) < 2 =>
                AllZero(ret.inclusive_vertex[LastEntry])
          /\ \A j \in 1..AssocHadrons :
                Cardinality(QualifyExclusive(j)) < 2 =>
                    AllZero(ret.exclusive_vertex[LastEntry][j])

\* exactly one track qualifies for the inclusive vertex, which is all zero,
\* while another jet of the batch kept a vertex of two tracks
C16_Witness ==
    /\ pc = "next"
    /\ Cardinality(QualifyInclusive) = 1
    /\ AllZero(ret.inclusive_vertex[LastEntry])
    /\ LastEntry = 2
    /\ SumBits(ret.inclusive_vertex[1]) = 2

\* the good jets among the first n of the batch
GoodAmong(n) == {i \in 1..n : args.good_jets[i]}

\* every per-jet list of the result holds n entries
ListsHold(n) ==
    /\ Len(ret.inclusive_vertex) = n
    /\ Len(ret.exclusive_vertex) = n
    /\ Len(ret.hadron_index) = n
    /\ Len(ret.n_tracks_inclusive_vertex) = n
    /\ Len(ret.n_tracks_exclusive_vertex) = n
    /\ Len(ret.good_hadron_track_association) = n

\* C17: with drop_bad_jets=True every per-jet list holds one entry per good
\* jet, appended in jet order, and none for a bad jet; row i of the mask is
\* the plain track mask of jet i when good_jets[i] and all zero otherwise.
C17_DropBadJets ==
    (args.drop_bad_jets /\ ~args.debug) =>
        /\ pc = "loop" =>
              /\ ListsHold(Cardinality(GoodAmong(loop_i)))
              /\ Len(ret.track_mask) = loop_i
        /\ pc = "next" =>
              /\ args.good_jets[loop_i + 1]
              /\ ListsHold(Cardinality(GoodAmong(loop_i + 1)))
              /\ Len(ret.track_mask) = loop_i + 1
              /\ ret.track_mask[loop_i + 1] =
                     [k \in 1..n_tracks |-> IF k - 1 < jet_row.n_tracks THEN 1 ELSE 0]
              /\ \A k \in 1..AssocTracks :
                     ret.inclusive_vertex[LastEntry][k] = 1 => k \in QualifyInclusive
        /\ pc = "done" =>
              /\ ret.error = "none"
              /\ ListsHold(Cardinality(GoodAmong(n_jets)))
              /\ Len(ret.track_mask) = n_jets
        /\ pc \in {"loop", "next", "done"} =>
              \A i \in DOMAIN ret.track_mask :
                  ~args.good_jets[i] => AllZero(ret.track_mask[i])

\* a batch of one bad and one good jet returns one entry, that of the good jet
C17_Witness ==
    /\ pc = "done"
    /\ args.drop_bad_jets /\ ~args.debug
    /\ n_jets = 2
    /\ args.good_jets = <<FALSE, TRUE>>
    /\ ListsHold(1)
    /\ SumBits(ret.inclusive_vertex[1]) = 2
    /\ AllZero(ret.track_mask[1])
    /\ ~AllZero(ret.track_mask[2])

\* C18: for every processed jet, when at least two tracks qualify, track
\* slot k of the inclusive vertex is set iff the slot is unmasked, its
\* parent barcode is not negative and equals the barcode of some real
\* hadron slot of the jet.
C18_InclusiveAssignment ==
    (pc = "next" /\ Cardinality(QualifyInclusive) >= 2) =>
        \A k \in 1..AssocTracks :
            ret.inclusive_vertex[LastEntry][k] = (IF k \in QualifyInclusive THEN 1 ELSE 0)

\* two tracks with barcode 0 match a hadron, a third, unmasked, matches none
C18_Witness ==
    /\ pc = "next"
    /\ Cardinality(QualifyInclusive) = 2
    /\ \E k \in QualifyInclusive : jet_row.tracks[k] = 0
    /\ \E k \in 1..AssocTracks :
          /\ Unmasked(k) /\ jet_row.tracks[k] >= 0
          /\ ret.inclusive_vertex[LastEntry][k] = 0

\* C19: for every processed jet and hadron slot j, when at least two tracks
\* qualify for slot j, track slot k of the exclusive vertex of j is set iff
\* the slot is unmasked, its parent barcode is not negative and equals the
\* barcode of slot j itself.
C19_ExclusiveAssignment ==
    pc = "next" =>
        \A j \in 1..AssocHadrons :
            Cardinality(QualifyExclusive(j)) >= 2 =>
                \A k \in 1..AssocTracks :
                    ret.exclusive_vertex[LastEntry][j][k] =
                        (IF k \in QualifyExclusive(j) THEN 1 ELSE 0)

\* two tracks belong to one slot and a third to the other slot: the third
\* is in the inclusive vertex and not in the exclusive vertex of the first
C19_Witness ==
    /\ pc = "next"
    /\ \E j \in 1..AssocHadrons, k \in 1..AssocTracks :
          /\ Cardinality(QualifyExclusive(j)) = 2
          /\ k \in QualifyInclusive
          /\ k \notin QualifyExclusive(j)
          /\ ret.exclusive_vertex[LastEntry][j][k] = 0
          /\ ret.inclusive_vertex[LastEntry][k] = 1

\* C20: no track slot with a negative parent barcode and no track slot at or
\* beyond the declared n_tracks is set in any vertex; a hadron slot with
\* barcode -1 has an all-zero exclusive vertex and count 0; a best hadron
\* index other than -99 names a slot whose barcode is not -1.
C20_SentinelsNeverMatched ==
    pc = "next" =>
        /\ \A k \in 1..AssocTracks :
              (jet_row.tracks[k] < 0 \/ k - 1 >= jet_row.n_tracks) =>
                  /\ ret.inclusive_vertex[LastEntry][k] = 0
                  /\ \A j \in 1..AssocHadrons :
                        ret.exclusive_vertex[LastEntry][j][k] = 0
        /\ \A j \in 1..AssocHadrons :
              jet_row.barcode[j] = Padding =>
                  /\ AllZero(ret.exclusive_vertex[LastEntry][j])
                  /\ ret.n_tracks_exclusive_vertex[LastEntry][j] = 0
        /\ ret.hadron_index[LastEntry] # NoAssociation =>
              jet_row.barcode[ret.hadron_index[LastEntry] + 1] # Padding

\* an unmasked track carries -1, the first hadron slot is padding, and the
\* jet is associated with its second slot through the two other tracks
C20_Witness ==
    /\ pc = "next"
    /\ jet_row.barcode[1] = Padding
    /\ \E k \in 1..AssocTracks : Unmasked(k) /\ jet_row.tracks[k] = Padding
    /\ ret.n_tracks_exclusive_vertex[LastEntry] = <<0, 2>>
    /\ ret.hadron_index[LastEntry] = 1

\* C21: diagnostics never abort: a call with debug=True (and
\* drop_bad_jets=True, so that the return statement is reached) ends
\* without an exception and with one entry per good jet in every list, as
\* the same call with debug=False does.
C21_DebugReturnsNormally ==
    (pc = "done" /\ args.debug /\ args.drop_bad_jets) =>
        /\ ret.error = "none"
        /\ ListsHold(Cardinality(GoodAmong(n_jets)))

\* C28: for every processed jet each track set in the exclusive vertex of a
\* hadron slot is also set in the inclusive vertex of the jet, and the
\* exclusive vertices of two slots with different barcodes share no track.
C28_ExclusiveWithinInclusive ==
    /\ HasLists =>
          \A n \in DOMAIN ret.exclusive_vertex :
              \A j \in 1..AssocHadrons, k \in 1..AssocTracks :
                  ret.exclusive_vertex[n][j][k] = 1 => ret.inclusive_vertex[n][k] = 1
    /\ pc = "next" =>
          \A j1, j2 \in 1..AssocHadrons :
              jet_row.barcode[j1] # jet_row.barcode[j2] =>
                  \A k \in 1..AssocTracks :
                      ~(/\ ret.exclusive_vertex[LastEntry][j1][k] = 1
                        /\ ret.exclusive_vertex[LastEntry][j2][k] = 1)

\* two tracks of the jet form the exclusive vertex of one slot, the other
\* slot has a different barcode and an empty vertex, and the inclusive
\* vertex holds the two tracks
C28_Witness ==
    /\ pc = "next"
    /\ jet_row.barcode = <<0, 1>>
    /\ jet_row.n_tracks = 2
    /\ SumBits(ret.exclusive_vertex[LastEntry][1]) = 2
    /\ AllZero(ret.exclusive_vertex[LastEntry][2])
    /\ ret.inclusive_vertex[LastEntry] = ret.exclusive_vertex[LastEntry][1]

\* ================================================ AuxResults.plot_var_vtx_perf
\* the index of a track that belongs to no vertex
Unassigned == -1

VertexIds == Unassigned..MaxVertexIndex

\* one track origin of each class the conditions tell apart: 0 is one of
\* [0, 1, 2] (pileup, fake, primary), 3 one of [3, 4, 5, 6] (heavy flavour),
\* 7 is in neither list
TrackOrigins == {0, 3, 7}

\* np.isin(track_origin, [0, 1, 2])
IsRemovedOrigin(origin) == origin \in {0, 1, 2}

\* np.isin(track_origin, [3, 4, 5, 6])
IsHFOrigin(origin) == origin \in {3, 4, 5, 6}

\* clean_indices of puma.utils.vertexing, from section 4.1 of the
\* specification: entries under the condition are set to the unassigned
\* index (remove) or, jet by jet, to the lowest non-negative index found
\* under the condition in that jet (merge); the others are kept
Representative(ids_row, condition_row) ==
    LET under == {ids_row[k] : k \in {t \in DOMAIN ids_row :
                                          condition_row[t] /\ ids_row[t] >= 0}}
    IN  IF under = {} THEN Unassigned
        ELSE CHOOSE v \in under : \A w \in under : v <= w

CleanIndices(vertex_ids, condition, mode) ==
    [i \in DOMAIN vertex_ids |->
        [k \in DOMAIN vertex_ids[i] |->
            IF ~condition[i][k] THEN vertex_ids[i][k]
            ELSE IF mode = "remove" THEN Unassigned
            ELSE Representative(vertex_ids[i], condition[i])]]

TruthRemovalCondAnd(aux) ==
    [i \in DOMAIN aux.vertexing |-> [k \in DOMAIN aux.vertexing[i] |->
        aux.vertexing[i][k] = 0 /\ IsRemovedOrigin(aux.track_origin[i][k])]]

\* lines 243-246: truth_removal_cond
TruthRemovalCond(aux) ==
    [i \in DOMAIN aux.vertexing |-> [k \in DOMAIN aux.vertexing[i] |->
        aux.vertexing[i][k] = 0 \/ IsRemovedOrigin(aux.track_origin[i][k])]]

TruthMergeCondGe(aux) ==
    [i \in DOMAIN aux.vertexing |-> [k \in DOMAIN aux.vertexing[i] |->
        aux.vertexing[i][k] >= 0 /\ IsHFOrigin(aux.track_origin[i][k])]]

\* lines 256-259: truth_merge_cond
TruthMergeCond(aux) ==
    [i \in DOMAIN aux.vertexing |-> [k \in DOMAIN aux.vertexing[i] |->
        aux.vertexing[i][k] > 0 /\ IsHFOrigin(aux.track_origin[i][k])]]

\* line 270: np.isin(tagger.aux_scores["track_origin"], [0, 1, 2])
RecoRemovalCond(aux) ==
    [i \in DOMAIN aux.track_origin |-> [k \in DOMAIN aux.track_origin[i] |->
        IsRemovedOrigin(aux.track_origin[i][k])]]

\* line 278: np.isin(tagger.aux_scores["track_origin"], [3, 4, 5, 6])
RecoMergeCond(aux) ==
    [i \in DOMAIN aux.track_origin |-> [k \in DOMAIN aux.track_origin[i] |->
        IsHFOrigin(aux.track_origin[i][k])]]

\* line 288: reco_indices >= 0
RecoMergeAllCond(reco_indices) ==
    [i \in DOMAIN reco_indices |-> [k \in DOMAIN reco_indices[i] |->
        reco_indices[i][k] >= 0]]

\* lines 248-264: truth_indices after the removal, after the optional merge
TruthRemoved(aux_labels) ==
    CleanIndices(aux_labels.vertexing, TruthRemovalCond(aux_labels), "remove")

TruthIndices(aux_labels, incl_vertexing) ==
    IF incl_vertexing
    THEN CleanIndices(TruthRemoved(aux_labels), TruthMergeCond(aux_labels), "merge")
    ELSE TruthRemoved(aux_labels)

\* lines 267-290: reco_indices before the optional merge and after it
RecoRemoved(aux_scores, aux_tasks) ==
    IF "track_origin" \in aux_tasks
    THEN CleanIndices(aux_scores.vertexing, RecoRemovalCond(aux_scores), "remove")
    ELSE aux_scores.vertexing

RecoIndices(aux_scores, aux_tasks, incl_vertexing) ==
    LET reco_indices == RecoRemoved(aux_scores, aux_tasks)
    IN  IF ~incl_vertexing THEN reco_indices
        ELSE IF "track_origin" \in aux_tasks
        THEN CleanIndices(reco_indices, RecoMergeCond(aux_scores), "merge")
        ELSE CleanIndices(reco_indices, RecoMergeAllCond(reco_indices), "merge")

\* the (n_jets, n_tracks) arrays of one tagger
VtxArrays(nj) ==
    [vertexing : [1..nj -> [1..VtxTracks -> VertexIds]],
     track_origin : [1..nj -> [1..VtxTracks -> TrackOrigins]]]

\* a tagger whose tracks are all unassigned pileup tracks
AllUnassigned(nj) ==
    [vertexing |-> [i \in 1..nj |-> [k \in 1..VtxTracks |-> Unassigned]],
     track_origin |-> [i \in 1..nj |-> [k \in 1..VtxTracks |-> 0]]]

\* one tagger of self.taggers: either its labels or its scores are arbitrary
\* and the other array is all unassigned
InitVtx ==
    /\ pc = "call"
    /\ n_jets \in 1..VtxJets
    /\ n_tracks = VtxTracks
    /\ \E a \in VtxArrays(n_jets) :
          \/ my_data = [aux_labels |-> a, aux_scores |-> AllUnassigned(n_jets)]
          \/ my_data = [aux_labels |-> AllUnassigned(n_jets), aux_scores |-> a]
    /\ \E tasks \in SUBSET {"vertexing", "track_origin"}, incl \in BOOLEAN :
          args = [aux_tasks |-> tasks, incl_vertexing |-> incl]
    /\ loop_i = 0
    /\ jet_row = NoRow
    /\ ret = NoRet

\* lines 239-290: the body of the loop over self.taggers for that tagger
CallPlotVarVtxPerf ==
    /\ pc = "call"
    /\ pc' = "done"
    /\ ret' = IF "vertexing" \notin args.aux_tasks
              THEN [error |-> "none", skipped |-> TRUE]
              ELSE [error |-> "none", skipped |-> FALSE,
                    truth_removed |-> TruthRemoved(my_data.aux_labels),
                    truth_indices |->
                        TruthIndices(my_data.aux_labels, args.incl_vertexing),
                    reco_removed |->
                        RecoRemoved(my_data.aux_scores, args.aux_tasks),
                    reco_indices |->
                        RecoIndices(my_data.aux_scores, args.aux_tasks,
                                    args.incl_vertexing)]
    /\ UNCHANGED <<n_jets, n_tracks, my_data, args, loop_i, jet_row>>

NextVtx == CallPlotVarVtxPerf

SpecVtx == InitVtx /\ [][NextVtx]_vars

\* ------------------------------------------------ claims on the Index Cleaner
\* the tagger's vertex indices were cleaned
Cleaned == pc = "done" /\ ~ret.skipped

VtxCells == (1..n_jets) \X (1..VtxTracks)

\* the removal conditions of lines 243-246 and 270, entry by entry
TruthRemovedAt(i, k) ==
    \/ my_data.aux_labels.vertexing[i][k] = 0
    \/ my_data.aux_labels.track_origin[i][k] \in {0, 1, 2}

RecoRemovedAt(i, k) ==
    /\ "track_origin" \in args.aux_tasks
    /\ my_data.aux_scores.track_origin[i][k] \in {0, 1, 2}

\* C22: in remove mode every entry under the condition holds -1 in the
\* output and every other entry keeps its input value, for the truth
\* indices and for the reco indices; a jet of unassigned tracks only comes
\* out unchanged.
C22_RemoveMode ==
    Cleaned =>
        \A c \in VtxCells :
            LET i == c[1]
                k == c[2]
            IN  /\ ret.truth_removed[i][k] =
                      (IF TruthRemovedAt(i, k) THEN Unassigned
                       ELSE my_data.aux_labels.vertexing[i][k])
                /\ ret.reco_removed[i][k] =
                      (IF RecoRemovedAt(i, k) THEN Unassigned
                       ELSE my_data.aux_scores.vertexing[i][k])

\* one jet loses an entry with truth index 0 and keeps its neighbour, the
\* other jet holds unassigned tracks only
C22_Witness ==
    /\ Cleaned
    /\ n_jets = 2
    /\ my_data.aux_labels.vertexing[1] = <<0, 2>>
    /\ my_data.aux_labels.track_origin[1] = <<3, 3>>
    /\ ret.truth_removed[1] = <<Unassigned, 2>>
    /\ my_data.aux_labels.vertexing[2] = <<Unassigned, Unassigned>>
    /\ ret.truth_removed[2] = <<Unassigned, Unassigned>>

\* the merge conditions of lines 256-259, 278 and 288, entry by entry
TruthMergedAt(i, k) ==
    /\ my_data.aux_labels.vertexing[i][k] > 0
    /\ my_data.aux_labels.track_origin[i][k] \in {3, 4, 5, 6}

RecoMergedAt(i, k) ==
    IF "track_origin" \in args.aux_tasks
    THEN my_data.aux_scores.track_origin[i][k] \in {3, 4, 5, 6}
    ELSE my_data.aux_scores.vertexing[i][k] >= 0

\* merge mode took before to after under the condition merged
MergedPerJet(before, after, merged(_, _)) ==
    \A i \in 1..n_jets :
        /\ \A k \in 1..VtxTracks : ~merged(i, k) => after[i][k] = before[i][k]
        /\ \A k1, k2 \in 1..VtxTracks :
              (merged(i, k1) /\ merged(i, k2)) => after[i][k1] = after[i][k2]
        /\ \A k \in 1..VtxTracks :
              merged(i, k) => \E t \in 1..VtxTracks :
                                  merged(i, t) /\ after[i][k] = before[i][t]

\* C23: in merge mode, within each jet, all entries under the condition
\* hold one and the same index, which is the index one of them had before,
\* and the entries not under the condition are unchanged.
C23_MergeMode ==
    (Cleaned /\ args.incl_vertexing) =>
        /\ MergedPerJet(ret.truth_removed, ret.truth_indices, TruthMergedAt)
        /\ MergedPerJet(ret.reco_removed, ret.reco_indices, RecoMergedAt)

\* truth indices 2 and 1 of one jet are merged into one index while the
\* other jet keeps its own
C23_Witness ==
    /\ Cleaned /\ args.incl_vertexing
    /\ n_jets = 2
    /\ my_data.aux_labels.vertexing = <<<<2, 1>>, <<2, 2>>>>
    /\ my_data.aux_labels.track_origin = <<<<3, 3>>, <<3, 7>>>>
    /\ ret.truth_indices[1][1] = ret.truth_indices[1][2]
    /\ ret.truth_indices[1][1] \in {1, 2}
    /\ ret.truth_indices[2] = <<2, 2>>

\* ==================================================== SelectHadronMostTracks
\* line 165: np.where(hadron_index == -99, 1, 0).astype(int)
InvalidJetMask(hadron_index) ==
    [n \in DOMAIN hadron_index |->
        IF hadron_index[n] = NoAssociation THEN 1 ELSE 0]

\* line 168
TmpHadronIndex(invalid_jet_mask, hadron_index) ==
    [n \in DOMAIN hadron_index |->
        IF invalid_jet_mask[n] = 1 THEN 0 ELSE hadron_index[n]]

\* line 171: truth_hadrons[np.arange(n), tmp_hadron_index]
PickSlots(truth_hadrons, tmp_hadron_index) ==
    [n \in DOMAIN truth_hadrons |-> truth_hadrons[n][tmp_hadron_index[n] + 1]]

\* the ~ of line 174 on an array of integers: bitwise not, ~0 = -1, ~1 = -2
Invert(int_mask) == [n \in DOMAIN int_mask |-> -int_mask[n] - 1]

\* line 174: array[index_array] with integer indices selects the elements at
\* those positions, a negative index counting from the end; an index out of
\* range raises IndexError
TakeByIndex(array, indices) ==
    LET size == Len(array)
        pos(v) == IF v < 0 THEN v + size ELSE v
    IN  IF \E n \in DOMAIN indices : pos(indices[n]) < 0 \/ pos(indices[n]) >= size
        THEN [error |-> "IndexError"]
        ELSE [error |-> "none",
              value |-> [n \in DOMAIN indices |-> array[pos(indices[n]) + 1]]]

\* lines 164-176
SelectHadronMostTracks(truth_hadrons, hadron_index) ==
    LET invalid_jet_mask == InvalidJetMask(hadron_index)
        tmp_hadron_index == TmpHadronIndex(invalid_jet_mask, hadron_index)
        truth_hadron_most_tracks == PickSlots(truth_hadrons, tmp_hadron_index)
    IN  TakeByIndex(truth_hadron_most_tracks, Invert(invalid_jet_mask))

\* a truth-hadron record is told apart by its barcode alone
InitSelect ==
    /\ pc = "call"
    /\ n_jets \in 1..MaxJets
    /\ n_tracks = 0
    /\ \E t \in [1..n_jets -> HadronRows] : my_data = [truth_hadrons |-> t]
    /\ \E h \in [1..n_jets -> {NoAssociation} \cup (0..(MaxHadrons - 1))] :
           args = [hadron_index |-> h]
    /\ loop_i = 0
    /\ jet_row = NoRow
    /\ ret = NoRet

CallSelectHadronMostTracks ==
    /\ pc = "call"
    /\ ret' = SelectHadronMostTracks(my_data.truth_hadrons, args.hadron_index)
    /\ pc' = "done"
    /\ UNCHANGED <<n_jets, n_tracks, my_data, args, loop_i, jet_row>>

NextSelect == CallSelectHadronMostTracks

SpecSelect == InitSelect /\ [][NextSelect]_vars

\* the jets whose best-hadron index is not the sentinel, in jet order
RECURSIVE ValidJetsFrom(_, _)
ValidJetsFrom(hadron_index, n) ==
    IF n > Len(hadron_index) THEN <<>>
    ELSE IF hadron_index[n] = NoAssociation
         THEN ValidJetsFrom(hadron_index, n + 1)
         ELSE <<n>> \o ValidJetsFrom(hadron_index, n + 1)

\* C4: the result holds, in jet order, exactly one element per jet whose
\* index is not the sentinel, namely truth_hadrons[jet][index]; sentinel
\* jets contribute nothing.
C4_SelectsValidJetsOnly ==
    pc = "done" =>
        LET valid == ValidJetsFrom(args.hadron_index, 1)
        IN  /\ ret.error = "none"
            /\ ret.value = [m \in 1..Len(valid) |->
                   my_data.truth_hadrons[valid[m]][args.hadron_index[valid[m]] + 1]]

\* ===================================================== Results and AuxResults
\* the names Flavours[...] knows
FlavourNames == {"bjets", "cjets", "ujets", "taujets", "hbb", "hcc", "top", "qcd"}

\* results.py lines 88-97: the background lists set_signal knows
DefaultBackgrounds(signal) ==
    CASE signal = "bjets" -> <<"cjets", "ujets">>
      [] signal = "cjets" -> <<"bjets", "ujets">>
      [] signal = "hbb" -> <<"hcc", "top", "qcd">>
      [] signal = "hcc" -> <<"hbb", "top", "qcd">>
      [] OTHER -> <<>>

SupportedSignals == {"bjets", "cjets", "hbb", "hcc"}

\* line 86: [f for f in self.all_flavours if f != self.signal]
AllBut(all_flavours, signal) ==
    SelectSeq(all_flavours, LAMBDA f : f # signal)

\* lines 70-99: set_signal on the object self; the signal is stored (line
\* 83) before the supported classes are looked at
SetSignal(self, signal) ==
    IF signal \notin FlavourNames
    THEN [error |-> "KeyError", self |-> self]
    ELSE IF self.all_flavours # <<>>
    THEN [error |-> "none",
          self |-> [self EXCEPT !.signal = signal,
                                !.backgrounds = AllBut(self.all_flavours, signal)]]
    ELSE IF signal \in SupportedSignals
    THEN [error |-> "none",
          self |-> [self EXCEPT !.signal = signal,
                                !.backgrounds = DefaultBackgrounds(signal)]]
    ELSE [error |-> "ValueError", self |-> [self EXCEPT !.signal = signal]]

\* lines 116-125: the flavours property
Flavours(self) == Append(self.backgrounds, self.signal)

\* a tagger without colour, without output_flavours
NoColour == "None"
NoFlavours == <<"None">>

\* the colours get_good_colours() offers, in its order; what line 145 does
\* when they run out is the same for any finite list
GoodColours == <<"good colour 1", "good colour 2">>

\* str(tagger), "name (label)" in the tests
Str(tagger) == <<tagger.name, tagger.label>>

\* str(tagger) in self.taggers
Registered(taggers, tagger) ==
    \E n \in DOMAIN taggers : Str(taggers[n]) = Str(tagger)

\* line 144: [t.colour for t in self.taggers.values()]
CurrentColours(taggers) == {taggers[n].colour : n \in DOMAIN taggers}

\* line 145: next(c for c in good_colours if c not in current_colours)
FreeColours(taggers) ==
    {n \in DOMAIN GoodColours : GoodColours[n] \notin CurrentColours(taggers)}

NextColour(taggers) ==
    GoodColours[CHOOSE n \in FreeColours(taggers) :
                    \A m \in FreeColours(taggers) : n <= m]

AddColourFirst(self, tagger) ==
    LET coloured == IF tagger.colour = NoColour /\ FreeColours(self.taggers) # {}
                    THEN [tagger EXCEPT !.colour = NextColour(self.taggers)]
                    ELSE tagger
        filled == IF coloured.output_flavours = NoFlavours
                  THEN [coloured EXCEPT !.output_flavours = Flavours(self)]
                  ELSE coloured
    IN  IF Registered(self.taggers, tagger)
        THEN [error |-> "KeyError", self |-> self, tagger |-> filled]
        ELSE [error |-> "none",
              self |-> [self EXCEPT !.taggers = Append(@, filled)],
              tagger |-> filled]

\* results.py lines 127-148: Results.add; the registry is the dict
\* self.taggers, kept as the sequence of its values in insertion order
Add(self, tagger) ==
    IF Registered(self.taggers, tagger)
    THEN [error |-> "KeyError", self |-> self, tagger |-> tagger]
    ELSE IF tagger.colour = NoColour /\ FreeColours(self.taggers) = {}
    THEN [error |-> "StopIteration", self |-> self, tagger |-> tagger]
    ELSE LET coloured == IF tagger.colour = NoColour
                         THEN [tagger EXCEPT !.colour = NextColour(self.taggers)]
                         ELSE tagger
             filled == IF coloured.output_flavours = NoFlavours
                       THEN [coloured EXCEPT !.output_flavours = Flavours(self)]
                       ELSE coloured
         IN  [error |-> "none",
              self |-> [self EXCEPT !.taggers = Append(@, filled)],
              tagger |-> filled]

\* aux_results.py lines 40-55: AuxResults.add, on its own registry
AuxAdd(self, tagger) ==
    IF Registered(self.aux_taggers, tagger)
    THEN [error |-> "KeyError", self |-> self, tagger |-> tagger]
    ELSE [error |-> "none",
          self |-> [self EXCEPT !.aux_taggers = Append(@, tagger)],
          tagger |-> tagger]

\* results.py lines 267-280 (aux_results.py 142-155): self.taggers[name]
GetItem(taggers, tagger_name) ==
    IF \E n \in DOMAIN taggers : Str(taggers[n]) = tagger_name
    THEN [error |-> "none",
          tagger |-> taggers[CHOOSE n \in DOMAIN taggers :
                                 Str(taggers[n]) = tagger_name]]
    ELSE [error |-> "KeyError"]

\* the all_flavours a Results object is built with: None or a list
AllFlavoursArgs ==
    {<<>>, <<"bjets", "cjets", "ujets">>, <<"bjets", "cjets", "ujets", "taujets">>}

\* the signal names a call may pass; "nope" is no flavour
SignalArgs == FlavourNames \cup {"nope"}

\* the taggers a call may pass
TaggerArgs ==
    [name : 1..MaxCalls, label : {"default"},
     colour : {NoColour, "black"},
     output_flavours : {NoFlavours, <<"bjets", "cjets">>}]

\* lines 50-68: a Results object whose construction did not raise, and an
\* AuxResults object, both without taggers
InitResults ==
    /\ pc = "idle"
    /\ n_jets = 0 /\ n_tracks = 0 /\ jet_row = NoRow
    /\ loop_i = 0
    /\ args = NoArgs
    /\ ret = NoRet
    /\ \E all_flavours \in AllFlavoursArgs, signal \in SignalArgs :
          LET built == SetSignal([all_flavours |-> all_flavours,
                                  signal |-> "unset", backgrounds |-> <<>>,
                                  taggers |-> <<>>, aux_taggers |-> <<>>], signal)
          IN  /\ built.error = "none"
              /\ my_data = built.self

CallSetSignal ==
    /\ loop_i < MaxCalls
    /\ \E signal \in SignalArgs :
          LET out == SetSignal(my_data, signal)
          IN  /\ args' = [op |-> "set_signal", signal |-> signal]
              /\ ret' = [error |-> out.error]
              /\ my_data' = out.self
    /\ loop_i' = loop_i + 1
    /\ UNCHANGED <<pc, n_jets, n_tracks, jet_row>>

CallAdd ==
    /\ loop_i < MaxCalls
    /\ \E tagger \in TaggerArgs :
          LET out == Add(my_data, tagger)
          IN  /\ args' = [op |-> "add", tagger |-> tagger]
              /\ ret' = [error |-> out.error, tagger |-> out.tagger]
              /\ my_data' = out.self
    /\ loop_i' = loop_i + 1
    /\ UNCHANGED <<pc, n_jets, n_tracks, jet_row>>

CallAuxAdd ==
    /\ loop_i < MaxCalls
    /\ \E tagger \in TaggerArgs :
          LET out == AuxAdd(my_data, tagger)
          IN  /\ args' = [op |-> "aux_add", tagger |-> tagger]
              /\ ret' = [error |-> out.error, tagger |-> out.tagger]
              /\ my_data' = out.self
    /\ loop_i' = loop_i + 1
    /\ UNCHANGED <<pc, n_jets, n_tracks, jet_row>>

NextResults ==
    \/ CallSetSignal
    \/ CallAdd
    \/ CallAuxAdd

SpecResults == InitResults /\ [][NextResults]_vars

\* ------------------------------------------ claims on Results and AuxResults
\* no two entries of a registry have the same key, and each entry is what
\* the registry returns for its key
OneEntryPerKey(taggers) ==
    \A n \in DOMAIN taggers :
        /\ \A m \in DOMAIN taggers : Str(taggers[n]) = Str(taggers[m]) => n = m
        /\ GetItem(taggers, Str(taggers[n])) = [error |-> "none", tagger |-> taggers[n]]

\* an add call on a registry: a registered key is rejected with KeyError and
\* nothing changes, not the registry and not the tagger passed in; a call
\* that returns puts the tagger, under its key, behind the entries there
AddStep(before, after) ==
    IF Registered(before, args'.tagger)
    THEN /\ ret'.error = "KeyError"
         /\ my_data' = my_data
         /\ ret'.tagger = args'.tagger
    ELSE /\ ret'.error # "KeyError"
         /\ ret'.error = "none" =>
               /\ after = Append(before, ret'.tagger)
               /\ Str(ret'.tagger) = Str(args'.tagger)
         /\ ret'.error # "none" => my_data' = my_data

\* C24: the registries of Results and AuxResults hold one entry per
\* str(tagger), keyed by it, in order of first insertion and retrievable by
\* it; an add of a registered str(tagger) raises KeyError and leaves the
\* registry and the colour and output_flavours of the rejected tagger as
\* they were.
C24_TaggerRegistry ==
    /\ [](OneEntryPerKey(my_data.taggers) /\ OneEntryPerKey(my_data.aux_taggers))
    /\ [][/\ (loop_i' = loop_i + 1 /\ args'.op = "add") =>
                 AddStep(my_data.taggers, my_data'.taggers)
          /\ (loop_i' = loop_i + 1 /\ args'.op = "aux_add") =>
                 AddStep(my_data.aux_taggers, my_data'.aux_taggers)]_vars

\* taggers 1 and 2 were added in that order, and a second tagger 1, without
\* colour and output_flavours, has just been rejected and still has neither
C24_Witness ==
    /\ loop_i = 3
    /\ Len(my_data.taggers) = 2
    /\ my_data.taggers[1].name = 1
    /\ my_data.taggers[2].name = 2
    /\ args.op = "add"
    /\ args.tagger.name = 1
    /\ args.tagger.colour = NoColour
    /\ args.tagger.output_flavours = NoFlavours
    /\ ret.error = "KeyError"
    /\ ret.tagger = args.tagger

\* the elements of a list
Elements(list) == {list[n] : n \in DOMAIN list}

NotGiven == [given |-> FALSE]
Given(value) == [given |-> TRUE, value |-> value]

\* bool(x) of an optional number: None and 0 are false
BoolOfNumber(x) == x.given /\ x.value # 0

\* bool(x) of an optional dict: None and {} are false
BoolOfDict(x) == x.given /\ x.value # <<>>

\* results.py lines 626-642: the checks of plot_var_perf and where the call
\* goes on to
PlotVarPerf(working_point, disc_cut, fixed_rejections) ==
    LET set == {n \in 1..3 :
                   \/ n = 1 /\ BoolOfNumber(working_point)
                   \/ n = 2 /\ BoolOfNumber(disc_cut)
                   \/ n = 3 /\ BoolOfDict(fixed_rejections)}
    IN  IF Cardinality(set) > 1
        THEN [error |-> "ValueError",
              message |-> "Only one of working_point, disc_cut, or fixed_rejections can be set"]
        ELSE IF set = {}
        THEN [error |-> "ValueError",
              message |-> "Either working_point or disc_cut must be set"]
        ELSE IF BoolOfDict(fixed_rejections)
        THEN [error |-> "none", message |-> "plot_flat_rej_var_perf"]
        ELSE [error |-> "none", message |-> "VarVsEffPlot"]

\* dict.update: target.update(other), the keys of other win
Update(target, other) ==
    [k \in DOMAIN target \cup DOMAIN other |->
        IF k \in DOMAIN other THEN other[k] ELSE target[k]]

\* lines 545-553: roc_kwargs; y_scale 1.3 is kept in tenths
RocKwargs(self) ==
    [n_ratio_panels |-> Len(self.backgrounds),
     ylabel |-> "Background rejection",
     xlabel |-> <<self.signal, "eff_str">>,
     atlas_first_tag |-> "Simulation Internal",
     atlas_second_tag |-> "None",
     y_scale |-> 13,
     ymin |-> 1]

\* lines 555-560: kwargs.update(roc_kwargs); RocPlot(**kwargs)
PlotRocs(self, kwargs) == Update(kwargs, RocKwargs(self))

\* lines 335-341: histo_kwargs
HistoKwargs(self) ==
    [ylabel |-> "Normalised number of jets",
     figsize |-> <<70, 45>>,
     n_ratio_panels |-> 1,
     atlas_first_tag |-> "Simulation Internal",
     atlas_second_tag |-> "None"]

\* lines 343-345: histo_kwargs.update(kwargs)
PlotProbs(self, kwargs) == Update(HistoKwargs(self), kwargs)

\* what a caller passes for a keyword
CallerValue(key) ==
    CASE key = "n_ratio_panels" -> 0
      [] key = "ylabel" -> "my label"
      [] key = "ymin" -> 5
      [] key = "figsize" -> <<60, 40>>

CallerKwargs ==
    {[k \in keys |-> CallerValue(k)] :
        keys \in SUBSET {"n_ratio_panels", "ylabel", "ymin", "figsize"}}

OptionalNumbers == {NotGiven, Given(0), Given(77)}

OptionalDicts == {NotGiven, Given(<<>>), Given(<<<<"cjets", 100>>>>)}

\* a Results object as its construction leaves it
InitPlot == InitResults

CallPlotVarPerf ==
    /\ pc = "idle"
    /\ pc' = "plotted"
    /\ \E working_point \in OptionalNumbers, disc_cut \in OptionalNumbers,
          fixed_rejections \in OptionalDicts :
          /\ args' = [op |-> "plot_var_perf", working_point |-> working_point,
                      disc_cut |-> disc_cut, fixed_rejections |-> fixed_rejections]
          /\ ret' = PlotVarPerf(working_point, disc_cut, fixed_rejections)
    /\ UNCHANGED <<n_jets, n_tracks, my_data, loop_i, jet_row>>

CallPlotRocs ==
    /\ pc = "idle"
    /\ pc' = "plotted"
    /\ \E kwargs \in CallerKwargs :
          /\ args' = [op |-> "plot_rocs", kwargs |-> kwargs]
          /\ ret' = [error |-> "none", plot_kwargs |-> PlotRocs(my_data, kwargs)]
    /\ UNCHANGED <<n_jets, n_tracks, my_data, loop_i, jet_row>>

CallPlotProbs ==
    /\ pc = "idle"
    /\ pc' = "plotted"
    /\ \E kwargs \in CallerKwargs :
          /\ args' = [op |-> "plot_probs", kwargs |-> kwargs]
          /\ ret' = [error |-> "none", plot_kwargs |-> PlotProbs(my_data, kwargs)]
    /\ UNCHANGED <<n_jets, n_tracks, my_data, loop_i, jet_row>>

NextPlot ==
    \/ CallPlotVarPerf
    \/ CallPlotRocs
    \/ CallPlotProbs

SpecPlot == InitPlot /\ [][NextPlot]_vars

\* ------------------------------------------------- claims on the plot calls
\* the arguments of working_point, disc_cut, fixed_rejections that are not None
SetArguments ==
    {a \in {"working_point", "disc_cut", "fixed_rejections"} : args[a].given}

\* C25: plot_var_perf raises ValueError iff the number of arguments among
\* working_point, disc_cut and fixed_rejections given a value other than
\* None is not exactly one, whatever the values are.
C25_ExactlyOneSet ==
    (pc = "plotted" /\ args.op = "plot_var_perf") =>
        (ret.error = "ValueError" <=> Cardinality(SetArguments) # 1)

\* C26: in the arguments plot_rocs passes to RocPlot a keyword of the
\* caller overrides the default of the same name, and a default is used
\* only where the caller gave nothing.
C26_CallerOverridesDefault ==
    (pc = "plotted" /\ args.op = "plot_rocs") =>
        \A k \in DOMAIN ret.plot_kwargs :
            ret.plot_kwargs[k] =
                (IF k \in DOMAIN args.kwargs THEN args.kwargs[k]
                 ELSE RocKwargs(my_data)[k])

\* ======================================== Results.load_taggers_from_file and
\* ======================================== AuxResults.add_taggers_from_file
\* A jet of the file is known by its position in the file; an array of the
\* model lists, row by row, the file position of the jet the row belongs to.
\* The rows of the file: whether a row holds a NaN, passes the common cuts,
\* passes the cuts of the tagger.
FileRows == [nan : BOOLEAN, cuts : BOOLEAN, tagger_cuts : BOOLEAN]

\* what reader.load returns, and a perf_vars array made for the same file
Loaded(file) == [n \in DOMAIN file |-> n]

\* the idx of data[mask] and of cuts(data): the 1-based positions of the rows
\* of data whose jet is among those kept
Positions(data, kept) ==
    LET all == [n \in DOMAIN data |-> n]
    IN  SelectSeq(all, LAMBDA n : data[n] \in kept)

Take(array, idx) == [n \in DOMAIN idx |-> array[idx[n]]]

\* results.py lines 195-214: check_nan
CheckNan(file, data, remove_nan) ==
    LET mask == Positions(data, {jet \in DOMAIN file : ~file[jet].nan})
    IN  IF Len(mask) < Len(data)
        THEN IF remove_nan
             THEN [error |-> "none", data |-> Take(data, mask)]
             ELSE [error |-> "ValueError", data |-> data]
        ELSE [error |-> "none", data |-> data]

\* results.py lines 236-265 for one tagger of the list, after the data was
\* read: the arrays attached to the tagger. perf_vars.given tells whether
\* the caller passed a perf_vars override.
LoadTaggersFromFile(file, remove_nan, cuts, tagger_cuts, perf_vars) ==
    LET checked == CheckNan(file, Loaded(file), remove_nan)
        \* line 240: idx, data = cuts(data)
        idx == IF cuts
               THEN Positions(checked.data, {jet \in DOMAIN file : file[jet].cuts})
               ELSE [n \in DOMAIN checked.data |-> n]
        data == Take(checked.data, idx)
        \* lines 241-243: perf_vars[name] = perf_var_array[idx]
        cut_perf_vars == IF cuts /\ perf_vars.given
                         THEN Take(perf_vars.value, idx)
                         ELSE perf_vars.value
        \* lines 250-251: idx, sel_data = tagger.cuts(data)
        tagger_idx == IF tagger_cuts
                      THEN Positions(data, {jet \in DOMAIN file : file[jet].tagger_cuts})
                      ELSE [n \in DOMAIN data |-> n]
        sel_data == Take(data, tagger_idx)
    IN  IF checked.error # "none" THEN [error |-> checked.error]
        ELSE [error |-> "none",
              labels |-> sel_data,
              \* lines 256-265: from sel_data, or sel_perf_vars = perf_vars
              perf_vars |-> IF perf_vars.given THEN cut_perf_vars ELSE sel_data]

\* aux_results.py lines 109-140 for one tagger of the list
AddTaggersFromFile(file, cuts, tagger_cuts, perf_var) ==
    LET idx == IF cuts
               THEN Positions(Loaded(file), {jet \in DOMAIN file : file[jet].cuts})
               ELSE [n \in DOMAIN file |-> n]
        data == Take(Loaded(file), idx)
        \* lines 111-112: perf_var = perf_var[idx]
        cut_perf_var == IF cuts /\ perf_var.given
                        THEN Take(perf_var.value, idx)
                        ELSE perf_var.value
        tagger_idx == IF tagger_cuts
                      THEN Positions(data, {jet \in DOMAIN file : file[jet].tagger_cuts})
                      ELSE [n \in DOMAIN data |-> n]
        sel_data == Take(data, tagger_idx)
        \* lines 124-125: sel_perf_var = perf_var[idx]
        sel_perf_var == IF tagger_cuts /\ perf_var.given
                        THEN Take(cut_perf_var, tagger_idx)
                        ELSE cut_perf_var
    IN  [error |-> "none",
         labels |-> sel_data,
         \* lines 133-138
         perf_vars |-> IF perf_var.given THEN sel_perf_var ELSE sel_data]

\* the tagger the calls load
LoadedTagger ==
    [name |-> 1, label |-> "default", colour |-> NoColour,
     output_flavours |-> NoFlavours]

\* a Results (an AuxResults) object without taggers, built with signal bjets
InitLoad ==
    /\ pc = "call"
    /\ n_tracks = 0 /\ jet_row = NoRow /\ loop_i = 0
    /\ n_jets \in 1..MaxFileJets
    /\ \E file \in [1..n_jets -> FileRows] :
          my_data = [file |-> file,
                     all_flavours |-> <<>>, signal |-> "bjets",
                     backgrounds |-> DefaultBackgrounds("bjets"),
                     taggers |-> <<>>, aux_taggers |-> <<>>]
    /\ \E remove_nan \in BOOLEAN, cuts \in BOOLEAN, tagger_cuts \in BOOLEAN,
          override \in BOOLEAN :
          args = [remove_nan |-> remove_nan, cuts |-> cuts,
                  tagger_cuts |-> tagger_cuts,
                  perf_vars |-> [given |-> override,
                                 value |-> IF override THEN Loaded(my_data.file)
                                           ELSE <<>>]]
    /\ ret = NoRet

\* results.py lines 164-265, the list of taggers being [LoadedTagger]
CallLoadTaggersFromFile ==
    /\ pc = "call"
    /\ pc' = "done"
    /\ LET added == Add(my_data, LoadedTagger)
           out == LoadTaggersFromFile(my_data.file, args.remove_nan, args.cuts,
                                      args.tagger_cuts, args.perf_vars)
       IN  /\ my_data' = [added.self EXCEPT
                             !.taggers[1].output_flavours = Flavours(my_data)]
           /\ ret' = out @@ [op |-> "load_taggers_from_file"]
    /\ UNCHANGED <<n_jets, n_tracks, args, loop_i, jet_row>>

\* aux_results.py lines 56-140, the list of taggers being [LoadedTagger]
CallAddTaggersFromFile ==
    /\ pc = "call"
    /\ pc' = "done"
    /\ LET added == AuxAdd(my_data, LoadedTagger)
           out == AddTaggersFromFile(my_data.file, args.cuts, args.tagger_cuts,
                                     args.perf_vars)
       IN  /\ my_data' = added.self
           /\ ret' = out @@ [op |-> "add_taggers_from_file"]
    /\ UNCHANGED <<n_jets, n_tracks, args, loop_i, jet_row>>

NextLoad ==
    \/ CallLoadTaggersFromFile
    \/ CallAddTaggersFromFile

SpecLoad == InitLoad /\ [][NextLoad]_vars

\* -------------------------------------------------- claims on the loading
\* C29: after a load that did not raise, each array of tagger.perf_vars has
\* the length of tagger.labels and holds, row by row, the jets of
\* tagger.labels, whatever remove_nan, the common cuts, the cuts of the
\* tagger and a perf_vars override are.
C29_PerfVarsAligned ==
    (pc = "done" /\ ret.error = "none") =>
        /\ Len(ret.perf_vars) = Len(ret.labels)
        /\ ret.perf_vars = ret.labels

====
